---- MODULE Spec2Model ----
(***************************************************************************)
(* Compliance security core of the HIPAA training system:                  *)
(*   src/hipaa_training/security.py  CircuitBreaker, SecurityManager       *)
(*   src/hipaa_training/models.py    UserManager.create_user               *)
(*                                                                         *)
(* Time is the value of time.time(), counted in whole model units.  The    *)
(* literals of the source that only fix a scale (60 s windows, 20 actions  *)
(* in 10 s, deque capacities 1000 and 5000, ...) are kept as named         *)
(* definitions with small values; every definition says which literal of   *)
(* the source it stands for.                                               *)
(***************************************************************************)
EXTENDS Integers, Naturals, Sequences, FiniteSets, TLC

VARIABLES
    now,        \* time.time()
    cb,         \* CircuitBreaker: state, failures, last_failure_time
    consec,     \* history: protected-function failures since its last success
    last,       \* history: the last CircuitBreaker.call, before and after
    pc,         \* per thread: position inside CircuitBreaker.call
    trial,      \* per thread: the call passed the gate with state HALF_OPEN
    config,     \* SecurityConfig: the three per-minute limits
    encryption_window,  \* SecurityManager._encryption_window (deque)
    audit_window,       \* SecurityManager._audit_window (deque)
    failed_auth,        \* SecurityManager._failed_auth (dict of lists)
    admits,     \* history: per counter, the times of the admitted calls that
                \* are at most RateWindow old
    user_patterns,      \* SecurityManager._user_patterns (dict of lists)
    user_creations,     \* DatabaseManager._user_creations (list)
    out         \* history: the last public operation: how it ended, what it
                \* appended to the audit file and to the audit_log table

\* ------------------------------------------------------------------ bounds

\* Largest value of time.time() the model explores.
MaxTime == 4

\* CircuitBreaker(failure_threshold=...): security.py:202 (default 5),
\* security.py:325 (SecurityManager passes 5).
failure_threshold == 2

\* CircuitBreaker(recovery_timeout=...): security.py:202 (default 60),
\* security.py:325 (SecurityManager passes 60).
recovery_timeout == 2

\* Number of caller threads of the concurrent specification.
NumThreads == 2

\* How long the protected function may run: 0 or 1 time units.
Durations == {0, 1}

Threads == 1..NumThreads

\* Optional[float] = None of last_failure_time (security.py:207).
None == -1

\* --------------------------------------------------------- CircuitBreaker

\* CircuitBreaker.__init__
CircuitBreaker == [state |-> "CLOSED", failures |-> 0, last_failure_time |-> None]

\* call, the gate: the breaker is OPEN and the recovery timeout has not
\* passed, so CircuitBreakerOpen is raised (the else branch of the gate).
call_refusedOffByOne(b, t) ==
    /\ b.state = "OPEN"
    /\ ~(t - b.last_failure_time >= recovery_timeout)

call_refused(b, t) ==
    /\ b.state = "OPEN"
    /\ ~(t - b.last_failure_time > recovery_timeout)

\* call, the gate passed: an OPEN breaker whose timeout has passed becomes
\* HALF_OPEN; any other state is left as it is.
call_enter(b, t) ==
    IF b.state = "OPEN" /\ ~call_refused(b, t)
    THEN [b EXCEPT !.state = "HALF_OPEN"]
    ELSE b

\* call, the protected function returned.
call_returnKeepsFailures(b) ==
    IF b.state = "HALF_OPEN"
    THEN [b EXCEPT !.state = "CLOSED"]
    ELSE b

call_return(b) ==
    IF b.state = "HALF_OPEN"
    THEN [b EXCEPT !.state = "CLOSED", !.failures = 0]
    ELSE b

\* call, the protected function raised at time t.
call_exceptKeepsTimer(b, t) ==
    [b EXCEPT !.failures = b.failures + 1,
              !.state = IF b.failures + 1 >= failure_threshold
                        THEN "OPEN" ELSE b.state]

call_except(b, t) ==
    [state |-> IF b.failures + 1 >= failure_threshold THEN "OPEN" ELSE b.state,
     failures |-> b.failures + 1,
     last_failure_time |-> t]

\* CircuitBreaker.call as one sequential call that starts at t0 and whose
\* protected function, when invoked, ends at t1 with outcome ok or not.
\* result: "returned", "raised" (the function's exception, re-raised) or
\* "CircuitBreakerOpen".
call(b, t0, t1, ok) ==
    IF call_refused(b, t0)
    THEN [cb |-> b, result |-> "CircuitBreakerOpen", invoked |-> FALSE]
    ELSE IF ok
         THEN [cb |-> call_return(call_enter(b, t0)),
               result |-> "returned", invoked |-> TRUE]
         ELSE [cb |-> call_except(call_enter(b, t0), t1),
               result |-> "raised", invoked |-> TRUE]


\* ------------------------------------------------------------ rate limiter

\* The sliding window of _check_rate_limit: 60.0 seconds (security.py:353).
RateWindow == 2

\* deque(maxlen=1000) of _encryption_window (security.py:318).
EncryptionWindowMaxLen == 1

\* deque(maxlen=5000) of _audit_window (security.py:319).
AuditWindowMaxLen == 3

\* Largest per-minute limit a configuration of the model sets
\* (MAX_ENCRYPTIONS_PER_MINUTE, MAX_AUDIT_LOGS_PER_MINUTE,
\* MAX_FAILED_AUTH_ATTEMPTS are read unchecked, security.py:144-152).
MaxLimit == 2

Limits == 1..MaxLimit

\* The identifiers callers pass; "None" is the default identifier=None.
Identifiers == {"alice", "bob"}
AnyIdentifier == Identifiers \cup {"None"}

\* The operation names callers pass; any other name ("certificate") is not
\* limited here.
Operations == {"encryption", "audit", "failed_auth", "certificate"}

\* deque.append on a deque with maxlen: a full deque drops its leftmost item.
deque_append(q, x, maxlen) ==
    IF Len(q) >= maxlen THEN Append(Tail(q), x) ELSE Append(q, x)

\* while window and window[0] < window_start: window.popleft()
RECURSIVE clean_old(_, _)
clean_old(window, window_start) ==
    IF window # <<>> /\ Head(window) < window_start
    THEN clean_old(Tail(window), window_start)
    ELSE window

\* [t for t in attempts if t > window_start]
newer_than(attempts, window_start) ==
    SelectSeq(attempts, LAMBDA t : t > window_start)

\* self._failed_auth[identifier], created empty when absent.
attempts_of(fa, identifier) ==
    IF identifier \in DOMAIN fa THEN fa[identifier] ELSE <<>>

\* dict item assignment.
dict_setEveryKey(d, k, v) == [x \in DOMAIN d \cup {k} |-> v]

dict_set(d, k, v) == [x \in DOMAIN d \cup {k} |-> IF x = k THEN v ELSE d[x]]

\* The state _check_rate_limit works on.
RateLimiting(ew, aw, fa) ==
    [encryption_window |-> ew, audit_window |-> aw, failed_auth |-> fa]

\* _setup_rate_limiting
setup_rate_limiting == RateLimiting(<<>>, <<>>, <<>>)

\* SecurityManager._check_rate_limit(operation, identifier) at current_time:
\* the state after the call and whether RateLimitExceeded was raised.
check_rate_limitCountsRefused(S, cfg, operation, identifier, current_time) ==
    LET window_start == current_time - RateWindow IN
    IF operation = "encryption" THEN
        LET window == clean_old(S.encryption_window, window_start) IN
        IF Len(window) >= cfg.max_encryptions_per_minute
        THEN [S |-> [S EXCEPT !.encryption_window =
                        deque_append(window, current_time, EncryptionWindowMaxLen)],
              raised |-> TRUE]
        ELSE [S |-> [S EXCEPT !.encryption_window =
                        deque_append(window, current_time, EncryptionWindowMaxLen)],
              raised |-> FALSE]
    ELSE IF operation = "audit" THEN
        LET window == clean_old(S.audit_window, window_start) IN
        IF Len(window) >= cfg.max_audit_logs_per_minute
        THEN [S |-> [S EXCEPT !.audit_window =
                        deque_append(window, current_time, AuditWindowMaxLen)],
              raised |-> TRUE]
        ELSE [S |-> [S EXCEPT !.audit_window =
                        deque_append(window, current_time, AuditWindowMaxLen)],
              raised |-> FALSE]
    ELSE IF operation = "failed_auth" THEN
        LET attempts == newer_than(attempts_of(S.failed_auth, identifier),
                                   window_start) IN
        IF Len(attempts) >= cfg.max_failed_auth_attempts
        THEN [S |-> [S EXCEPT !.failed_auth =
                        dict_set(S.failed_auth, identifier,
                                 Append(attempts, current_time))],
              raised |-> TRUE]
        ELSE [S |-> [S EXCEPT !.failed_auth =
                        dict_set(S.failed_auth, identifier,
                                 Append(attempts, current_time))],
              raised |-> FALSE]
    ELSE [S |-> S, raised |-> FALSE]

check_rate_limit(S, cfg, operation, identifier, current_time) ==
    LET window_start == current_time - RateWindow IN
    IF operation = "encryption" THEN
        LET window == clean_old(S.encryption_window, window_start) IN
        IF Len(window) >= cfg.max_encryptions_per_minute
        THEN [S |-> [S EXCEPT !.encryption_window = window], raised |-> TRUE]
        ELSE [S |-> [S EXCEPT !.encryption_window =
                        deque_append(window, current_time, EncryptionWindowMaxLen)],
              raised |-> FALSE]
    ELSE IF operation = "audit" THEN
        LET window == clean_old(S.audit_window, window_start) IN
        IF Len(window) >= cfg.max_audit_logs_per_minute
        THEN [S |-> [S EXCEPT !.audit_window = window], raised |-> TRUE]
        ELSE [S |-> [S EXCEPT !.audit_window =
                        deque_append(window, current_time, AuditWindowMaxLen)],
              raised |-> FALSE]
    ELSE IF operation = "failed_auth" THEN
        LET attempts == newer_than(attempts_of(S.failed_auth, identifier),
                                   window_start) IN
        IF Len(attempts) >= cfg.max_failed_auth_attempts
        THEN [S |-> [S EXCEPT !.failed_auth =
                        dict_set(S.failed_auth, identifier, attempts)],
              raised |-> TRUE]
        ELSE [S |-> [S EXCEPT !.failed_auth =
                        dict_set(S.failed_auth, identifier,
                                 Append(attempts, current_time))],
              raised |-> FALSE]
    ELSE [S |-> S, raised |-> FALSE]

\* The counter a call (operation, identifier) is counted on, as the code
\* keeps it: one window per deque, one list per failed_auth identifier.
window_of(S, operation, identifier) ==
    IF operation = "encryption" THEN S.encryption_window
    ELSE IF operation = "audit" THEN S.audit_window
    ELSE IF operation = "failed_auth" THEN attempts_of(S.failed_auth, identifier)
    ELSE <<>>

\* The limit configured for an operation.
limit_of(cfg, operation) ==
    IF operation = "encryption" THEN cfg.max_encryptions_per_minute
    ELSE IF operation = "audit" THEN cfg.max_audit_logs_per_minute
    ELSE cfg.max_failed_auth_attempts

\* The calls the model makes: any operation with any identifier, except
\* that failed_auth is always given an identifier.
RateCalls ==
    {c \in Operations \X AnyIdentifier : c[1] = "failed_auth" => c[2] \in Identifiers}

\* History: the name of the counter a call is counted on.
counter_of(operation, identifier) ==
    IF operation = "failed_auth" THEN <<operation, identifier>>
    ELSE <<operation, "None">>

Counters ==
    {<<"encryption", "None">>, <<"audit", "None">>}
        \cup {<<"failed_auth", i>> : i \in Identifiers}

\* History: the admission times that are at most RateWindow old at time t,
\* and of those the latest MaxLimit + 1.
still_recent(times, t) ==
    LET kept == SelectSeq(times, LAMBDA x : x >= t - RateWindow)
    IN  IF Len(kept) > MaxLimit + 1 THEN Tail(kept) ELSE kept

\* History: how many admitted calls are less than RateWindow old at time t.
inside(times, t) == Len(SelectSeq(times, LAMBDA x : x > t - RateWindow))

\* The rate limiter as _setup_rate_limiting leaves it, under the default-like
\* configuration in which every limit equals its deque's capacity.
RateLimitingIdle ==
    /\ config = [max_encryptions_per_minute |-> EncryptionWindowMaxLen,
                 max_audit_logs_per_minute |-> AuditWindowMaxLen,
                 max_failed_auth_attempts |-> MaxLimit]
    /\ encryption_window = <<>>
    /\ audit_window = <<>>
    /\ failed_auth = <<>>
    /\ admits = [c \in Counters |-> <<>>]


\* --------------------------------------------------------- audit logging

\* _detect_anomalies keeps the last 100 actions of a user (security.py:749).
PatternCap == 3

\* _detect_anomalies counts the actions of the last 10 seconds
\* (security.py:754).
AnomalyWindow == 1

\* _detect_anomalies flags more than 20 same actions (security.py:756).
AnomalyThreshold == 1

\* The depth of nested _log_audit calls at which the interpreter raises
\* RecursionError (sys.getrecursionlimit(), 1000 by default).
RecursionLimit == 2

\* Config.MAX_USERS_PER_HOUR (models.py:32, default 50).
MaxUsersPerHour == 1

\* The window of DatabaseManager._check_rate_limit: 3600 seconds
\* (models.py:234), sixty times RateWindow.
HourWindow == 60 * RateWindow

\* The users that call log_action; user 0 is the system itself.
Users == {1, 2}

\* ActionType values the model uses (security.py:54-66).
ActionType == {"LOGIN", "DATA_ACCESS", "HEALTH_CHECK", "SECURITY_VIOLATION"}

\* The action callers log.
LoggedActions == {"LOGIN"}

\* A line of the audit file, a row of the audit_log table.
Entry(user_id, action) == [user_id |-> user_id, action |-> action]

\* The line logger.error writes when the breaker is open (security.py:662-671).
BreakerEntry == Entry(0, "CIRCUIT_BREAKER")

\* What one audit call works on: the breaker, the anomaly windows, what has
\* been appended to the audit file and inserted into audit_log so far in
\* this operation; and as history the events passed to _log_audit with the
\* outcome of their backing-store write, and how the outermost
\* _detect_anomalies ended.
Audit(b, up) ==
    [cb |-> b, user_patterns |-> up, file |-> <<>>, db |-> <<>>,
     passed |-> <<>>, detect |-> "not_run"]

\* self._user_patterns[user_id], created empty when absent.
patterns_of(up, user_id) ==
    IF user_id \in DOMAIN up THEN up[user_id] ELSE <<>>

\* self.logger.info(details, extra=...): the event's line in the audit file
\* (security.py:633-642).
logger_info(A, user_id, action) ==
    [A EXCEPT !.file = Append(@, Entry(user_id, action))]

\* self.logger.error("Circuit breaker OPEN ...") (security.py:662-671).
logger_error(A) == [A EXCEPT !.file = Append(@, BreakerEntry)]

\* _write_audit_db when the INSERT succeeds (security.py:692-724).
write_audit_db(A, user_id, action) ==
    [A EXCEPT !.db = Append(@, Entry(user_id, action))]

\* History: the event passed to _log_audit and what became of its write.
passed_on(A, user_id, action, write) ==
    [A EXCEPT !.passed =
        Append(@, [user_id |-> user_id, action |-> action, write |-> write])]

RECURSIVE log_audit(_, _, _, _, _, _)
RECURSIVE detect_anomalies(_, _, _, _, _, _)

\* SecurityManager._log_audit(user_id, action, ...) at time t.  dbok[depth]
\* says whether the INSERT of the call nested depth levels deep succeeds.
\* An action that is a plain string has no .value: AttributeError inside the
\* try, so AuditError.  Beyond RecursionLimit the call raises RecursionError,
\* which the enclosing _log_audit turns into AuditError.
log_audit(A, user_id, action, t, dbok, depth) ==
    IF depth > RecursionLimit THEN [A |-> A, raised |-> "AuditError"]
    ELSE IF action \notin ActionType
    THEN [A |-> passed_on(A, user_id, action, "not_reached"),
          raised |-> "AuditError"]
    ELSE
        LET A1 == logger_info(A, user_id, action)
            r == call(A1.cb, t, t, dbok[depth])
            A2 == passed_on([A1 EXCEPT !.cb = r.cb], user_id, action, r.result)
        IN  IF r.result = "CircuitBreakerOpen"
            THEN [A |-> logger_error(A2), raised |-> "none"]
            ELSE IF r.result = "raised"
            THEN [A |-> A2, raised |-> "AuditError"]
            ELSE
                LET d == detect_anomalies(write_audit_db(A2, user_id, action),
                                          user_id, action, t, dbok, depth)
                    ended == IF d.raised = "none" THEN "returned" ELSE "raised"
                IN  [A |-> IF depth = 0 THEN [d.A EXCEPT !.detect = ended]
                           ELSE d.A,
                     raised |-> IF d.raised = "none" THEN "none"
                                ELSE "AuditError"]

\* SecurityManager._detect_anomalies(user_id, action) at time t.
detect_anomalies(A, user_id, action, t, dbok, depth) ==
    LET appended == Append(patterns_of(A.user_patterns, user_id), <<action, t>>)
        patterns == IF Len(appended) > PatternCap THEN Tail(appended)
                    ELSE appended
        recent == SelectSeq(patterns,
                            LAMBDA p : p[2] > t - AnomalyWindow /\ p[1] = action)
        A1 == [A EXCEPT !.user_patterns = dict_set(@, user_id, patterns)]
    IN  IF Len(recent) > AnomalyThreshold
        THEN log_audit(A1, user_id, "SECURITY_VIOLATION", t, dbok, depth + 1)
        ELSE [A |-> A1, raised |-> "none"]

\* SecurityManager.log_action(user_id, action, details, ...) at time t:
\* the rate limiter's state S and the audit state A after it, and what it
\* raised.  valid: details and session_id pass validate_input.
log_action(S, A, cfg, user_id, action, valid, t, dbok) ==
    LET r == check_rate_limit(S, cfg, "audit", "None", t) IN
    IF r.raised THEN [S |-> r.S, A |-> A, raised |-> "RateLimitExceeded"]
    ELSE IF ~valid THEN [S |-> r.S, A |-> A, raised |-> "ValidationError"]
    ELSE LET l == log_audit(A, user_id, action, t, dbok, 0)
         IN  [S |-> r.S, A |-> l.A, raised |-> l.raised]

\* SecurityManager.encrypt_data(data) at time t.  valid: data is a string
\* that is not blank and not above max_data_size.
encrypt_data(S, cfg, valid, t) ==
    LET r == check_rate_limit(S, cfg, "encryption", "None", t) IN
    IF r.raised THEN [S |-> r.S, raised |-> "RateLimitExceeded"]
    ELSE IF ~valid THEN [S |-> r.S, raised |-> "ValidationError"]
    ELSE [S |-> r.S, raised |-> "none"]

\* SecurityManager.decrypt_data(encrypted_data): a blank argument is a
\* ValidationError, anything that is not a token of this manager an
\* EncryptionError.
decrypt_data(kind) ==
    IF kind = "blank" THEN "ValidationError"
    ELSE IF kind = "garbage" THEN "EncryptionError"
    ELSE "none"

\* DatabaseManager._check_rate_limit("user") at time t: the list after the
\* call and whether RateLimitExceeded was raised.
db_check_rate_limit(attempts, t) ==
    LET kept == newer_than(attempts, t - HourWindow) IN
    IF Len(kept) >= MaxUsersPerHour THEN [attempts |-> kept, raised |-> TRUE]
    ELSE [attempts |-> Append(kept, t), raised |-> FALSE]

\* The last public operation, before any was made.
NoOperation ==
    [op |-> "none", raised |-> "none", file |-> <<>>, db |-> <<>>,
     passed |-> <<>>, detect |-> "not_run"]

\* What an operation that ran A leaves in the record of the last operation.
Outcome(op, raised, A) ==
    [op |-> op, raised |-> raised, file |-> A.file, db |-> A.db,
     passed |-> A.passed, detect |-> A.detect]

\* The audit side before SecurityManager is used.
AuditIdle ==
    /\ user_patterns = <<>>
    /\ user_creations = <<>>
    /\ out = NoOperation

\* ---------------------------------------------------------------- sessions

VARIABLES
    active_sessions,    \* SecurityManager._active_sessions (dict)
    issued_at,  \* history: per token, when create_session issued it
    accepted,   \* history: the tokens validate_session has returned True for
    validated   \* history: the last validate_session call: the token, the
                \* time, when the token had been issued, and the result

\* The tokens secrets.token_urlsafe(32) hands out, in the order it does; a
\* token is never handed out twice.
Tokens == {1, 2}

\* config.session_timeout_minutes, in model time units.
SessionTimeout == 2

\* SecurityManager.create_session at time t, session_id being the new token.
create_session(sessions, session_id, t) == dict_set(sessions, session_id, t)

\* dict: del d[k].
dict_del(d, k) == [x \in DOMAIN d \ {k} |-> d[x]]

\* SecurityManager.validate_session(session_id) at time t: the sessions
\* after the call and the value returned.
validate_sessionRenews(sessions, session_id, t) ==
    IF session_id \notin DOMAIN sessions
    THEN [sessions |-> sessions, result |-> FALSE]
    ELSE IF t - sessions[session_id] > SessionTimeout
    THEN [sessions |-> dict_del(sessions, session_id), result |-> FALSE]
    ELSE [sessions |-> dict_set(sessions, session_id, t), result |-> TRUE]

validate_session(sessions, session_id, t) ==
    IF session_id \notin DOMAIN sessions
    THEN [sessions |-> sessions, result |-> FALSE]
    ELSE IF t - sessions[session_id] > SessionTimeout
    THEN [sessions |-> dict_del(sessions, session_id), result |-> FALSE]
    ELSE [sessions |-> sessions, result |-> TRUE]

\* No validate_session call made yet.
NoValidation ==
    [session_id |-> None, t |-> 0, issued |-> None, result |-> FALSE]

\* SecurityManager.__init__: no session.
SessionsIdle ==
    /\ active_sessions = <<>>
    /\ issued_at = [k \in Tokens |-> None]
    /\ accepted = {}
    /\ validated = NoValidation

seVars == <<active_sessions, issued_at, accepted, validated>>

\* ------------------------------------------------- atomic store (src/main.py)

VARIABLES
    dest,       \* the destination file: NoFile when absent, else its content
    temps,      \* number of .tmp files in the destination's directory
    wr          \* the atomic_json_write call in progress: its position, its
                \* data, whether temp_path is set; as history the destination
                \* and the .tmp files when it began, and how it ended

\* The documents written.
Docs == {1, 2}

\* Most .tmp files the model lets pile up.
MaxTemps == 2

\* The path names no file.
NoFile == [doc |-> None, whole |-> FALSE]

\* A file holding all of document d, or only a first part of it.
whole(d) == [doc |-> d, whole |-> TRUE]
partial(d) == [doc |-> d, whole |-> FALSE]

\* No atomic_json_write call made yet.
NoWrite ==
    [pc |-> "idle", data |-> None, serialisable |-> TRUE, temp_path |-> FALSE,
     before |-> NoFile, temps_before |-> 0, result |-> "none", at |-> "none"]

\* atomic_json_write: the except clause.  The temp file is unlinked only
\* when temp_path has been assigned; the call returns False.
write_except(w, n) ==
    [w |-> [w EXCEPT !.pc = "done", !.result = "False", !.at = w.pc],
     temps |-> IF w.temp_path THEN n - 1 ELSE n]

\* atomic_json_write: return True.
write_return(w) == [w EXCEPT !.pc = "done", !.result = "True", !.at = w.pc]

\* How one whole atomic_json_write call can go: the temp file cannot be
\* created; json.dump raises; os.rename replaces the destination; os.rename
\* raises and the copy that shutil.move makes instead cannot open the
\* destination, raises part way, or completes.
WriteOutcomes ==
    {"tempfile_failed", "dump_failed", "renamed", "open_failed",
     "copy_failed", "copied"}

\* AtomicFileManager.atomic_json_write(data, filepath) as one step: the
\* destination and the number of .tmp files after it, and what it returned.
atomic_json_write(file, n, data, outcome) ==
    [dest |-> IF outcome \in {"renamed", "copied"} THEN whole(data)
              ELSE IF outcome = "copy_failed" THEN partial(data)
              ELSE file,
     temps |-> IF outcome = "dump_failed" THEN n + 1 ELSE n,
     ok |-> outcome \in {"renamed", "copied"}]

\* The atomic store before it is used: no file.
StoreIdle ==
    /\ dest = NoFile
    /\ temps = 0
    /\ wr = NoWrite

stVars == <<dest, temps, wr>>

\* --------------------------------------- backups and recovery (src/main.py)

VARIABLES
    backups,    \* the backups directory: per timestamp in a backup's name,
                \* the content of that backup of the progress file
    audit_jsonl,        \* the lines of audit_log.jsonl (AuditLogger.log_event)
    rd          \* history: the last read of the progress file: what the file
                \* held, what was returned, whether the file's content was
                \* backed up and whether an audit line was written

\* ProgressConfig.max_backup_files (core/progress.py:52), scaled down.
max_backup_files == 2

\* CloudDataManager.create_backup(source_path) at time t; copied: whether
\* shutil.copy2 succeeds.  The name holds the time to the second, so a
\* later backup within the same second replaces the earlier one.
create_backup(B, file, t, copied) ==
    IF file = NoFile THEN [backups |-> B, ok |-> TRUE]
    ELSE IF copied THEN [backups |-> dict_set(B, t, file), ok |-> TRUE]
    ELSE [backups |-> B, ok |-> FALSE]

\* AtomicFileManager.atomic_json_read(filepath, default) at time t;
\* readable: open() succeeds.  json.load raises JSONDecodeError on a file
\* that holds only part of a document.
atomic_json_read(file, B, log, t, readable, copied) ==
    IF file = NoFile THEN [value |-> "default", backups |-> B, log |-> log]
    ELSE IF ~readable THEN [value |-> "default", backups |-> B, log |-> log]
    ELSE IF file.whole THEN [value |-> file.doc, backups |-> B, log |-> log]
    ELSE [value |-> "default",
          backups |-> create_backup(B, file, t, copied).backups,
          log |-> log]

\* ProgressManager.load_progress() at time t (main.py): a backup before any
\* read attempt, then the read.
load_progress(file, B, log, t, readable, copied) ==
    IF file = NoFile THEN [value |-> "default", backups |-> B, log |-> log]
    ELSE atomic_json_read(file, create_backup(B, file, t, copied[1]).backups,
                          log, t, readable, copied[2])

\* No read made yet.
NoRead ==
    [op |-> "none", saw |-> NoFile, value |-> "default", backed_up |-> FALSE,
     audited |-> FALSE]

\* What a read at time t that found file and ended as r leaves in rd.
ReadOutcome(op, file, t, log, r) ==
    [op |-> op, saw |-> file, value |-> r.value,
     backed_up |-> t \in DOMAIN r.backups /\ r.backups[t] = file,
     audited |-> r.log # log]

\* The data directory before it is used.
RecoveryIdle ==
    /\ backups = <<>>
    /\ audit_jsonl = <<>>
    /\ rd = NoRead

rcVars == <<backups, audit_jsonl, rd>>

\* ------------------------------------------------------------ audit trails

VARIABLES
    log_files,  \* hipaa_audit.log and its rotated backups, newest first:
                \* each the lines it holds, a line being its serial number
    audit_log,  \* the audit_log table: rows [id, timestamp]
    emitted,    \* history: number of lines ever emitted to hipaa_audit.log
    logged,     \* history: number of events ever appended to audit_log.jsonl
    inserted,   \* history: number of rows ever inserted into audit_log
    purged      \* history: the rows cleanup_old_audit_logs has deleted, each
                \* with the time of its deletion

\* Most records the model writes to each trail.
MaxRecords == 3

\* config.max_log_size (MAX_LOG_SIZE, security.py:157), counted in lines.
max_log_size == 2

\* config.log_backup_count (LOG_BACKUP_COUNT, security.py:158).
log_backup_count == 1

\* Config.AUDIT_RETENTION_YEARS * 365 days (models.py:515-517), in model
\* time units.
AuditRetention == 2

\* RotatingFileHandler.emit(record) as _setup_logging configures it: when
\* the line would bring the file to maxBytes the files roll over first: the
\* oldest backup beyond backupCount is deleted, the others move up by one
\* and the line starts a new file.
rotating_emit(files, line) ==
    IF Len(files[1]) + 1 >= max_log_size
    THEN LET kept == SubSeq(files, 1, IF Len(files) < log_backup_count
                                      THEN Len(files) ELSE log_backup_count)
         IN  << <<line>> >> \o kept
    ELSE [files EXCEPT ![1] = Append(@, line)]

\* DatabaseManager.cleanup_old_audit_logs() at time t:
\* DELETE FROM audit_log WHERE timestamp < cutoff_date.
cleanup_old_audit_logs(table, t) ==
    SelectSeq(table, LAMBDA row : ~(row.timestamp < t - AuditRetention))

\* AuditLogger.log_event(event_type, details): the line is appended, or the
\* write fails and nothing is.
log_event(lines, event, written) ==
    IF written THEN Append(lines, event) ELSE lines

\* The lines of hipaa_audit.log and its backups, oldest first.
RECURSIVE lines_of(_)
lines_of(files) ==
    IF files = <<>> THEN <<>>
    ELSE lines_of(Tail(files)) \o Head(files)

\* The audit trails before anything is logged.
TrailsIdle ==
    /\ log_files = << <<>> >>
    /\ audit_log = <<>>
    /\ emitted = 0
    /\ logged = 0
    /\ inserted = 0
    /\ purged = {}

trVars == <<log_files, audit_log, emitted, logged, inserted, purged>>

\* ---------------------------------------------------------- audit checksums

VARIABLES
    audit_row,  \* the audit record last written, as it is stored now
    changed     \* "unwritten", "none", or the field of audit_row that was
                \* changed after it was written

\* config.encryption_key, the HMAC key.
encryption_key == "key"

\* The values of an audit record's fields.
Details == {<<"x">>, <<"x", "|", "y">>}
SessionIds == {"s1", "s2"}
IpAddresses == {"10.0.0.1", "0.0.0.0"}
SecurityLevel == {"LOW", "HIGH"}
Metadata == {"NULL", "{k:1}"}

\* f"{user_id}|{action.value}|{details}|{ip_address}", as the sequence of
\* its characters (a text is the sequence of its parts).
log_data(user_id, action, details, ip_address) ==
    <<ToString(user_id), "|", action, "|">> \o details \o <<"|", ip_address>>

\* _generate_checksum(data): HMAC-SHA256 of data under the key, the first 16
\* hex digits.  The MAC is taken as ideal: equal exactly for equal key and
\* data.
generate_checksum(key, data) == <<key>> \o data

\* The record _log_audit writes at time t: the checksum it computes, and
\* the row _write_audit_db inserts with it.
audit_record(user_id, action, details, session_id, ip_address, level, metadata, t) ==
    [user_id |-> user_id,
     action |-> action,
     details |-> details,
     session_id |-> session_id,
     ip_address |-> ip_address,
     security_level |-> level,
     checksum |-> generate_checksum(encryption_key,
                     log_data(user_id, action, details, ip_address)),
     metadata |-> metadata,
     timestamp |-> t]

\* The checksum recomputed from a stored record's fields, the way
\* _log_audit computed it.
recomputed(row) ==
    generate_checksum(encryption_key,
        log_data(row.user_id, row.action, row.details, row.ip_address))

\* The fields of an audit record other than the checksum, and the values
\* each can take.
Fields == {"user_id", "action", "details", "session_id", "ip_address",
           "security_level", "timestamp", "metadata"}

FieldValues(f) ==
    CASE f = "user_id" -> Users
      [] f = "action" -> ActionType
      [] f = "details" -> Details
      [] f = "session_id" -> SessionIds
      [] f = "ip_address" -> IpAddresses
      [] f = "security_level" -> SecurityLevel
      [] f = "timestamp" -> 0..MaxTime
      [] f = "metadata" -> Metadata

\* No audit record written yet.
ChecksumsIdle ==
    /\ audit_row = audit_record(1, "LOGIN", <<"x">>, "s1", "0.0.0.0", "LOW", "NULL", 0)
    /\ changed = "unwritten"

ckVars == <<audit_row, changed>>

\* ------------------------------------------------------- encryption envelope

VARIABLES
    encrypted,     \* the last encrypt_data call: its manager's configuration,
                \* its arguments and what it returned or raised
    decrypted      \* the last decrypt_data call on that token: its manager's
                \* configuration and what it returned or raised

\* config.max_data_size, in characters.
max_data_size == 2

\* config.encryption_version and the Fernet key _setup_encryption derives
\* from config.encryption_key, config.salt and config.pbkdf2_iterations.
SecurityConfig ==
    [encryption_version : {"v1", "v2"}, cipher : {"k1", "k2"}]

\* Plaintexts, as sequences of characters: empty, blank, two acceptable
\* ones, one above the size limit.
Data == {<<>>, <<" ">>, <<"p">>, <<"q", " ">>, <<"p", "q", "p">>}

\* data.strip()
RECURSIVE strip(_)
strip(data) ==
    IF data = <<>> THEN <<>>
    ELSE IF Head(data) = " " THEN strip(Tail(data))
    ELSE IF data[Len(data)] = " " THEN strip(SubSeq(data, 1, Len(data) - 1))
    ELSE data

\* Python values that occur in a metadata dict, tagged with their type, and
\* the keys of such a dict.
PyValues == {<<"str", "a">>, <<"int", "1">>, <<"list", "a">>,
             <<"tuple", "a">>, <<"set", "a">>}
PyKeys == {<<"str", "k">>, <<"int", "1">>}

\* Metadata dicts, as sets of <<key, value>>: the empty one and those of
\* one item.
MetadataMaps == {{}} \cup {{<<k, v>>} : k \in PyKeys, v \in PyValues}

\* What json.dumps can serialise: str, int, list and tuple, not set.
json_serialisable(v) == v[1] \in {"str", "int", "list", "tuple"}

\* json.dumps of a value: a str is a JSON string, an int a number, a list
\* and a tuple alike an array.
json_dumps_value(v) ==
    CASE v[1] = "str" -> <<"string">> \o Tail(v)
      [] v[1] = "int" -> <<"number">> \o Tail(v)
      [] v[1] \in {"list", "tuple"} -> <<"array">> \o Tail(v)

\* json.dumps of a dict key: always a JSON string, an int key by its digits.
json_dumps_key(k) == <<"string">> \o Tail(k)

\* json.loads of a JSON value, and of an object's key.
json_loads_value(j) ==
    CASE j[1] = "string" -> <<"str">> \o Tail(j)
      [] j[1] = "number" -> <<"int">> \o Tail(j)
      [] j[1] = "array" -> <<"list">> \o Tail(j)

json_loads_key(j) == <<"str">> \o Tail(j)

\* json.dumps(payload, separators=(",", ":")) of the envelope.
json_dumps(payload) ==
    [version |-> <<"string", payload.version>>,
     timestamp |-> payload.timestamp,
     data |-> <<"string">> \o payload.data,
     metadata |-> {<<json_dumps_key(item[1]), json_dumps_value(item[2])>> :
                      item \in payload.metadata}]

\* json.loads(decrypted)
json_loads(text) ==
    [version |-> text.version[2],
     timestamp |-> text.timestamp,
     data |-> Tail(text.data),
     metadata |-> {<<json_loads_key(item[1]), json_loads_value(item[2])>> :
                      item \in text.metadata}]

\* self.cipher.encrypt(plain): a Fernet token, which only the same key
\* opens.
cipher_encrypt(key, plain) == [key |-> key, plain |-> plain]

\* base64.urlsafe_b64encode(...).decode("ascii") and its inverse.
urlsafe_b64encode(bytes) == [b64 |-> bytes]
urlsafe_b64decode(text) == text.b64

\* The empty string, as an argument of decrypt_data.
EmptyString ==
    urlsafe_b64encode(cipher_encrypt("",
        [version |-> <<"string", "">>, timestamp |-> 0,
         data |-> <<"string">>, metadata |-> {}]))

\* What a call returned when it raised.
NoPayload == [data |-> <<>>, metadata |-> {}]

\* SecurityManager.encrypt_data(data, metadata) at time t; admit: the rate
\* limiter admits the call.
encrypt_tokenDropsMetadata(cfg, admit, data, metadata, t) ==
    IF ~admit THEN [raised |-> "RateLimitExceeded", token |-> EmptyString]
    ELSE IF strip(data) = <<>> \/ Len(data) > max_data_size
    THEN [raised |-> "ValidationError", token |-> EmptyString]
    ELSE IF \E item \in metadata : ~json_serialisable(item[2])
    THEN [raised |-> "EncryptionError", token |-> EmptyString]
    ELSE LET payload == [version |-> cfg.encryption_version,
                         timestamp |-> t,
                         data |-> data,
                         metadata |-> {}]
         IN  [raised |-> "none",
              token |-> urlsafe_b64encode(
                            cipher_encrypt(cfg.cipher, json_dumps(payload)))]

encrypt_token(cfg, admit, data, metadata, t) ==
    IF ~admit THEN [raised |-> "RateLimitExceeded", token |-> EmptyString]
    ELSE IF strip(data) = <<>> \/ Len(data) > max_data_size
    THEN [raised |-> "ValidationError", token |-> EmptyString]
    ELSE IF \E item \in metadata : ~json_serialisable(item[2])
    THEN [raised |-> "EncryptionError", token |-> EmptyString]
    ELSE LET payload == [version |-> cfg.encryption_version,
                         timestamp |-> t,
                         data |-> data,
                         metadata |-> metadata]
         IN  [raised |-> "none",
              token |-> urlsafe_b64encode(
                            cipher_encrypt(cfg.cipher, json_dumps(payload)))]

\* SecurityManager.decrypt_data(encrypted_data)
decrypt_tokenAnyVersion(cfg, encrypted_data) ==
    IF encrypted_data = EmptyString
    THEN [raised |-> "ValidationError", payload |-> NoPayload]
    ELSE LET encrypted_bytes == urlsafe_b64decode(encrypted_data) IN
         IF encrypted_bytes.key # cfg.cipher
         THEN [raised |-> "EncryptionError", payload |-> NoPayload]
         ELSE LET payload == json_loads(encrypted_bytes.plain) IN
              [raised |-> "none",
               payload |-> [data |-> payload.data,
                            metadata |-> payload.metadata]]

decrypt_token(cfg, encrypted_data) ==
    IF encrypted_data = EmptyString
    THEN [raised |-> "ValidationError", payload |-> NoPayload]
    ELSE LET encrypted_bytes == urlsafe_b64decode(encrypted_data) IN
         IF encrypted_bytes.key # cfg.cipher
         THEN [raised |-> "EncryptionError", payload |-> NoPayload]
         ELSE LET payload == json_loads(encrypted_bytes.plain) IN
              IF payload.version # cfg.encryption_version
              THEN [raised |-> "EncryptionError", payload |-> NoPayload]
              ELSE [raised |-> "none",
                    payload |-> [data |-> payload.data,
                                 metadata |-> payload.metadata]]

\* Before any call.
NoSeal ==
    [config |-> [encryption_version |-> "v1", cipher |-> "k1"],
     data |-> <<>>, metadata |-> {}, called |-> FALSE,
     r |-> [raised |-> "none", token |-> EmptyString]]

NoOpen ==
    [config |-> [encryption_version |-> "v1", cipher |-> "k1"],
     called |-> FALSE,
     r |-> [raised |-> "none", payload |-> NoPayload]]

EnvelopeIdle ==
    /\ encrypted = NoSeal
    /\ decrypted = NoOpen

enVars == <<encrypted, decrypted>>

\* -------------------------------------------------------------- configuration

VARIABLES
    environ,    \* os.environ, or the fields of a SecurityConfig built by the
                \* caller: the settings SecurityManager is constructed from
    manager     \* the last SecurityManager(...) call: whether a manager came
                \* out of it, what was raised, and the manager's config

\* The least pbkdf2_iterations _validate_configuration accepts (600000),
\* scaled down.
MinIterations == 2

\* The settings: the secret is unset, shorter than 32 characters or long
\* enough; the salt is unset, not hexadecimal, hexadecimal of another
\* length than 32 bytes, or as required; numeric says whether the text of
\* the numeric environment variables parses as integers.
Settings ==
    [encryption_key : {"unset", "short", "ok"},
     salt : {"unset", "malformed", "wrong_length", "ok"},
     numeric : BOOLEAN,
     pbkdf2_iterations : {MinIterations - 1, MinIterations},
     max_encryptions_per_minute : {-1, 0, 1},
     session_timeout_minutes : {0, 1},
     max_data_size : {0, 1}]

\* What the constructor reports.
Built(raised, settings) ==
    [called |-> TRUE, running |-> raised = "none", raised |-> raised,
     config |-> settings]

\* SecurityConfig.from_environment(): the error it raises, "none" when it
\* returns the configuration.
from_environment(e) ==
    IF e.encryption_key = "unset" THEN "ValueError"
    ELSE IF e.salt = "unset" THEN "ValueError"
    ELSE IF e.encryption_key = "short" THEN "ValueError"
    ELSE IF e.salt \in {"malformed", "wrong_length"} THEN "ValueError"
    ELSE IF ~e.numeric THEN "ValueError"
    ELSE "none"

\* SecurityManager._validate_configuration()
validate_configuration(c) ==
    IF c.pbkdf2_iterations < MinIterations THEN "ValueError" ELSE "none"

\* SecurityManager._setup_encryption(): bytes.fromhex(salt) and
\* encryption_key.encode() fail on None and on text that is not
\* hexadecimal; any key and any hexadecimal salt build a cipher.
setup_encryption(c) ==
    IF c.salt \in {"unset", "malformed"} \/ c.encryption_key = "unset"
    THEN "EncryptionError"
    ELSE "none"

\* SecurityManager.__init__(config): from the environment when no config is
\* given, else from the caller's SecurityConfig, whose fields are integers
\* already; started: _log_startup's audit record could be written.
SecurityManager(e, explicit, started) ==
    LET loaded == IF explicit THEN "none" ELSE from_environment(e)
        c == [e EXCEPT !.numeric = TRUE]
    IN  IF loaded # "none" THEN Built(loaded, c)
        ELSE IF validate_configuration(c) # "none"
        THEN Built(validate_configuration(c), c)
        ELSE IF setup_encryption(c) # "none"
        THEN Built(setup_encryption(c), c)
        ELSE IF ~started THEN Built("AuditError", c)
        ELSE Built("none", c)

\* Before any manager is constructed.
NoManager ==
    [called |-> FALSE, running |-> FALSE, raised |-> "none",
     config |-> [encryption_key |-> "ok", salt |-> "ok", numeric |-> TRUE,
                 pbkdf2_iterations |-> MinIterations,
                 max_encryptions_per_minute |-> 1,
                 session_timeout_minutes |-> 1,
                 max_data_size |-> 1]]

ConfigIdle ==
    /\ environ = NoManager.config
    /\ manager = NoManager

cfVars == <<environ, manager>>

\* ----------------------------------------------------------- progress table

VARIABLES
    training_progress,  \* the training_progress table: its rows, each the
                \* user_id it was saved for
    saved       \* history: the last DatabaseManager.save_progress call: the
                \* table before it and what it raised

\* Most rows the model lets the table hold.
MaxRows == 2

\* The checklist_data argument: absent, a dict, a dict whose JSON text is
\* above max_data_size.
Checklists == {"none", "dict", "too_large"}

\* DatabaseManager.save_progress(user_id, lesson_title, score,
\* checklist_data) at time t on table T, limiter S and audit state A.
\* valid: lesson_title and score pass validation; committed: the INSERT and
\* the commit succeed (else sqlite3.Error and rollback); audit_valid: the
\* details pass log_action's validation.
save_progress(T, S, A, cfg, user_id, valid, checklist, committed, audit_valid, t, dbok) ==
    IF ~valid THEN [T |-> T, S |-> S, A |-> A, raised |-> "ValidationError"]
    ELSE
        LET e == IF checklist = "none" THEN [S |-> S, raised |-> "none"]
                 ELSE encrypt_data(S, cfg, checklist = "dict", t)
        IN  IF e.raised # "none"
            THEN [T |-> T, S |-> e.S, A |-> A, raised |-> "SecurityError"]
            ELSE IF committed
            THEN LET l == log_action(e.S, A, cfg, user_id, "PROGRESS_SAVED",
                                     audit_valid, t, dbok)
                 IN  [T |-> Append(T, user_id),
                      S |-> l.S, A |-> l.A, raised |-> l.raised]
            ELSE LET l == log_action(e.S, A, cfg, user_id, "PROGRESS_SAVE_FAILED",
                                     audit_valid, t, dbok)
                 IN  [T |-> T, S |-> l.S, A |-> l.A,
                      raised |-> IF l.raised # "none" THEN l.raised
                                 ELSE "SecurityError"]

\* Before any save_progress call.
NoSave == [called |-> FALSE, before |-> <<>>, raised |-> "none"]

ProgressIdle ==
    /\ training_progress = <<>>
    /\ saved = NoSave

tpVars == <<training_progress, saved>>

\* ------------------------------------------------- rate limiter under threads

VARIABLES
    rl_pc,      \* per thread: position inside _check_rate_limit("encryption")
    rl_time,    \* per thread: its current_time
    thread_admits   \* history: the current_time of every call that was admitted

\* Most admissions the model follows.
MaxAdmits == 3

RateThreadsIdle ==
    /\ rl_pc = [t \in Threads |-> "idle"]
    /\ rl_time = [t \in Threads |-> 0]
    /\ thread_admits = <<>>

rtVars == <<rl_pc, rl_time, thread_admits>>

\* --------------------------------------------------- concurrent file writers

VARIABLES
    sv,         \* per thread: its atomic_json_write call: position, the file
                \* it writes and the data
    disk        \* per logical file: the document it holds, None when absent

\* The logical files written (user_progress.json and another).
LogicalFiles == {1, 2}

\* A thread outside atomic_json_write.
NoSaving == [pc |-> "idle", file |-> 1, data |-> 1]

WritersIdle ==
    /\ sv = [t \in Threads |-> NoSaving]
    /\ disk = [f \in LogicalFiles |-> None]

swVars == <<sv, disk>>

\* ------------------------------------------------------ rate limiter calls

VARIABLES
    rate_call   \* history: the last _check_rate_limit call: its arguments and
                \* time, the limiter before and after it, the times of the
                \* calls admitted on its counter before it, and whether it
                \* raised RateLimitExceeded

NoRateCall ==
    [called |-> FALSE, operation |-> "encryption", identifier |-> "None",
     t |-> 0, before |-> setup_rate_limiting, after |-> setup_rate_limiting,
     admitted |-> <<>>, raised |-> FALSE]

RateCallsIdle == rate_call = NoRateCall

rkVars == <<rate_call>>

\* ------------------------------------------------------------ CLI progress

VARIABLES
    progress,   \* PythonAnywhereCLI.progress, the progress held in memory:
                \* xp, level, lessons_completed, checklist
    progress_json,      \* the progress last written to user_progress.json
    cli_audit,  \* the events AuditLogger.log_event appended to the audit file
    cli_changes \* history: the changes the CLI made to progress, in order

\* The lessons and the checklist items.
Lessons == {"Privacy Rule", "Security Rule"}
ChecklistItems == {"training", "baa"}

\* config.xp_per_lesson and config.xp_per_checklist_item (main.py:33, 35),
\* and the XP of one level (main.py:745), scaled down.
xp_per_lesson == 2
xp_per_checklist_item == 1
XpPerLevel == 3

\* Most XP the model lets the user collect.
MaxXp == 4

\* calculate_level(xp): max(1, (xp // 100) + 1)
calculate_level(xp) ==
    IF (xp \div XpPerLevel) + 1 < 1 THEN 1 ELSE (xp \div XpPerLevel) + 1

\* create_default_progress()
default_progress ==
    [xp |-> 0, level |-> 1, lessons_completed |-> {},
     checklist |-> [i \in ChecklistItems |-> FALSE]]

\* display_lesson(title), from the point where the lesson has been read;
\* persisted: save_progress returns True; appended: log_event's append
\* succeeds.  P is the progress in memory, F the file, L the audit file, C
\* the history of changes.
display_lesson(P, F, L, C, title, persisted, appended) ==
    IF title \in P.lessons_completed
    THEN [progress |-> P, file |-> F, audit |-> L, changes |-> C]
    ELSE LET xp == P.xp + xp_per_lesson
             P1 == [P EXCEPT !.lessons_completed = @ \cup {title},
                             !.xp = xp,
                             !.level = calculate_level(xp)]
         IN  [progress |-> P1,
              file |-> IF persisted THEN P1 ELSE F,
              audit |-> IF persisted /\ appended
                        THEN Append(L, [event_type |-> "lesson_completed",
                                        subject |-> title])
                        ELSE L,
              changes |-> Append(C, [event_type |-> "lesson_completed",
                                     subject |-> title])]

\* show_checklist(), from the point where item has been chosen.
show_checklist(P, F, L, C, item, persisted, appended) ==
    LET new_state == ~P.checklist[item]
        xp == IF new_state THEN P.xp + xp_per_checklist_item ELSE P.xp
        P1 == [P EXCEPT !.checklist[item] = new_state,
                        !.xp = xp,
                        !.level = calculate_level(xp)]
    IN  [progress |-> P1,
         file |-> IF persisted THEN P1 ELSE F,
         audit |-> IF persisted /\ appended
                   THEN Append(L, [event_type |-> "checklist_updated",
                                   subject |-> item])
                   ELSE L,
         changes |-> Append(C, [event_type |-> "checklist_updated",
                                subject |-> item])]

CliIdle ==
    /\ progress = default_progress
    /\ progress_json = default_progress
    /\ cli_audit = <<>>
    /\ cli_changes = <<>>

clVars == <<progress, progress_json, cli_audit, cli_changes>>

\* ------------------------------------------------------------- all the state

\* What the parts added to the security core start as.
ExtIdle == SessionsIdle /\ StoreIdle /\ RecoveryIdle /\ TrailsIdle
           /\ ChecksumsIdle /\ EnvelopeIdle /\ ConfigIdle /\ ProgressIdle /\ RateThreadsIdle /\ WritersIdle /\ RateCallsIdle /\ CliIdle

extVars == <<seVars, stVars, rcVars, trVars, ckVars, enVars,
    cfVars,
    tpVars,
    rtVars,
    swVars,
    rkVars,
    clVars>>

\* The record kept of the last call: the breaker before it, the time it
\* started and ended, whether the function was invoked and how it ended.
NoCall ==
    [op |-> "none", pre |-> CircuitBreaker, t0 |-> 0, t1 |-> 0,
     result |-> "none", invoked |-> FALSE, half_open |-> FALSE]

cbVars == <<cb, consec, last, pc, trial>>
rlVars == <<config, encryption_window, audit_window, failed_auth, admits>>

auVars == <<user_patterns, user_creations, out>>

vars == <<now, cbVars, rlVars, auVars, extVars>>

\* The state of SecurityManager's breaker, limiter and audit writer; and, for
\* each of the other parts, the state it leaves alone.
secVars == <<now, cbVars, rlVars, auVars>>
notSessions == <<stVars, rcVars, trVars, ckVars, enVars,
    cfVars,
    tpVars,
    rtVars,
    swVars,
    rkVars,
    clVars>>
notFiles == <<seVars, trVars, ckVars, enVars,
    cfVars,
    tpVars,
    rtVars,
    swVars,
    rkVars,
    clVars>>
notTrails == <<seVars, stVars, ckVars, enVars,
    cfVars,
    tpVars,
    rtVars,
    swVars,
    rkVars,
    clVars>>
notChecksums == <<seVars, stVars, rcVars, trVars, enVars,
    cfVars,
    tpVars,
    rtVars,
    swVars,
    rkVars,
    clVars>>
notEnvelope == <<seVars, stVars, rcVars, trVars, ckVars,
    cfVars,
    tpVars,
    rtVars,
    swVars,
    rkVars,
    clVars>>
notConfig == <<seVars, stVars, rcVars, trVars, ckVars, enVars,
    tpVars,
    rtVars,
    swVars,
    rkVars,
    clVars>>
notProgress == <<seVars, stVars, rcVars, trVars, ckVars, enVars, cfVars,
    rtVars,
    swVars,
    rkVars,
    clVars>>
notRateThreads == <<seVars, stVars, rcVars, trVars, ckVars, enVars, cfVars, tpVars,
    swVars,
    rkVars,
    clVars>>
notWriters == <<seVars, stVars, rcVars, trVars, ckVars, enVars, cfVars, tpVars, rtVars,
    rkVars,
    clVars>>
notRateCalls == <<seVars, stVars, rcVars, trVars, ckVars, enVars, cfVars, tpVars, rtVars, swVars,
    clVars>>
notCli == <<seVars, stVars, rcVars, trVars, ckVars, enVars, cfVars, tpVars, rtVars, swVars, rkVars>>

\* ------------------------------------------- sequential breaker: SpecBreaker

InitBreaker ==
    /\ now = 0
    /\ cb = CircuitBreaker
    /\ consec = 0
    /\ last = NoCall
    /\ pc = [t \in Threads |-> "idle"]
    /\ trial = [t \in Threads |-> FALSE]
    /\ RateLimitingIdle
    /\ AuditIdle
    /\ ExtIdle

\* time.time() moves on between calls.
Tick ==
    /\ now < MaxTime
    /\ now' = now + 1
    /\ admits' = [c \in Counters |-> still_recent(admits[c], now + 1)]
    /\ UNCHANGED <<extVars, cbVars, config, encryption_window, audit_window, failed_auth, auVars>>

\* One whole CircuitBreaker.call(func) by a single caller.
Call ==
    \E ok \in BOOLEAN, d \in Durations :
        LET r == call(cb, now, now + d, ok)
            dur == IF r.invoked THEN d ELSE 0
        IN  /\ now + dur <= MaxTime
            /\ cb' = r.cb
            /\ now' = now + dur
            /\ consec' = IF ~r.invoked THEN consec
                         ELSE IF ok THEN 0 ELSE consec + 1
            /\ last' = [op |-> "call", pre |-> cb, t0 |-> now, t1 |-> now + dur,
                        result |-> r.result, invoked |-> r.invoked,
                        half_open |-> call_enter(cb, now).state = "HALF_OPEN"]
            /\ UNCHANGED <<extVars, pc, trial, rlVars, auVars>>

NextBreaker == Tick \/ Call

SpecBreaker == InitBreaker /\ [][NextBreaker]_vars

\* C1: starting from CLOSED, a call opens the breaker when, and only when,
\* failure_threshold consecutive calls of the protected function have failed;
\* failures separated by a success do not add up.
C1_OpensOnConsecutiveFailures ==
    (last.op = "call" /\ last.pre.state = "CLOSED")
        => (cb.state = "OPEN" <=> consec >= failure_threshold)

\* C2: a call made while the breaker is OPEN and no more than recovery_timeout
\* after the last failure raises CircuitBreakerOpen, does not invoke the
\* protected function, and leaves state, failures and last_failure_time alone.
C2_OpenFailsFast ==
    (/\ last.op = "call"
     /\ last.pre.state = "OPEN"
     /\ last.t0 - last.pre.last_failure_time <= recovery_timeout)
        => (/\ last.result = "CircuitBreakerOpen"
            /\ ~last.invoked
            /\ cb = last.pre)

\* C2 witness: a call exactly recovery_timeout after the last failure was
\* refused.
C2_Witness ==
    /\ last.op = "call"
    /\ last.pre.state = "OPEN"
    /\ last.t0 - last.pre.last_failure_time = recovery_timeout
    /\ last.result = "CircuitBreakerOpen"

\* C4: the HALF_OPEN trial decides: success gives CLOSED with failures 0;
\* failure gives OPEN with the timer restarted at the time of that failure,
\* so a call at any time up to recovery_timeout later is refused.
C4_TrialDecides ==
    (last.op = "call" /\ last.half_open)
        => (/\ last.result = "returned"
                => (cb.state = "CLOSED" /\ cb.failures = 0)
            /\ last.result = "raised"
                => (/\ cb.state = "OPEN"
                    /\ cb.last_failure_time = last.t1
                    /\ \A t \in last.t1..(last.t1 + recovery_timeout) :
                          call(cb, t, t, TRUE).result = "CircuitBreakerOpen"))

\* C4 witness: a trial call that took time and failed, after which the
\* breaker is OPEN again.
C4_Witness ==
    /\ last.op = "call"
    /\ last.half_open
    /\ last.result = "raised"
    /\ last.t1 > last.t0
    /\ cb.state = "OPEN"

\* ------------------------------------------ concurrent breaker: SpecThreads
\* Several threads call the same breaker; no lock is taken in call, so the
\* gate, the protected function and the outcome handling of different calls
\* interleave.

\* Thread t passes the gate and starts the protected function.
Enter(t) ==
    /\ pc[t] = "idle"
    /\ ~call_refused(cb, now)
    /\ cb' = call_enter(cb, now)
    /\ pc' = [pc EXCEPT ![t] = "in_func"]
    /\ trial' = [trial EXCEPT ![t] = (call_enter(cb, now).state = "HALF_OPEN")]
    /\ UNCHANGED <<extVars, now, consec, last, rlVars, auVars>>

\* Thread t is refused at the gate: CircuitBreakerOpen.
Refuse(t) ==
    /\ pc[t] = "idle"
    /\ call_refused(cb, now)
    /\ pc' = [pc EXCEPT ![t] = "refused"]
    /\ UNCHANGED <<extVars, now, cb, consec, last, trial, rlVars, auVars>>

\* The caller of thread t has handled CircuitBreakerOpen and may call again.
Retry(t) ==
    /\ pc[t] = "refused"
    /\ pc' = [pc EXCEPT ![t] = "idle"]
    /\ UNCHANGED <<extVars, now, cb, consec, last, trial, rlVars, auVars>>

\* The protected function of thread t returns.
Return(t) ==
    /\ pc[t] = "in_func"
    /\ cb' = call_return(cb)
    /\ pc' = [pc EXCEPT ![t] = "idle"]
    /\ trial' = [trial EXCEPT ![t] = FALSE]
    /\ UNCHANGED <<extVars, now, consec, last, rlVars, auVars>>

\* The protected function of thread t raises.
Except(t) ==
    /\ pc[t] = "in_func"
    /\ cb' = call_except(cb, now)
    /\ pc' = [pc EXCEPT ![t] = "idle"]
    /\ trial' = [trial EXCEPT ![t] = FALSE]
    /\ UNCHANGED <<extVars, now, consec, last, rlVars, auVars>>

NextThreads ==
    \/ Tick
    \/ \E t \in Threads : Enter(t)
    \/ \E t \in Threads : Refuse(t)
    \/ \E t \in Threads : Retry(t)
    \/ \E t \in Threads : Return(t)
    \/ \E t \in Threads : Except(t)

SpecThreads == InitBreaker /\ [][NextThreads]_vars

\* C3: once recovery_timeout has elapsed in OPEN, exactly one trial call
\* reaches the protected function: while a call let through in HALF_OPEN is
\* still in progress, no second call is let through in HALF_OPEN.
C3_SingleTrial ==
    Cardinality({t \in Threads : pc[t] = "in_func" /\ trial[t]}) <= 1

\* ------------------------------------------------- rate limiter: SpecRate

InitRate ==
    /\ now = 0
    /\ cb = CircuitBreaker
    /\ consec = 0
    /\ last = NoCall
    /\ pc = [t \in Threads |-> "idle"]
    /\ trial = [t \in Threads |-> FALSE]
    /\ config \in [max_encryptions_per_minute : Limits,
                   max_audit_logs_per_minute : {1},
                   max_failed_auth_attempts : Limits]
    /\ encryption_window = <<>>
    /\ audit_window = <<>>
    /\ failed_auth = <<>>
    /\ admits = [c \in Counters |-> <<>>]
    /\ AuditIdle
    /\ ExtIdle

\* One call of _check_rate_limit(operation, identifier).
CheckRateLimit ==
    \E rc \in RateCalls :
        LET S == RateLimiting(encryption_window, audit_window, failed_auth)
            r == check_rate_limit(S, config, rc[1], rc[2], now)
            c == counter_of(rc[1], rc[2])
        IN  /\ encryption_window' = r.S.encryption_window
            /\ audit_window' = r.S.audit_window
            /\ failed_auth' = r.S.failed_auth
            /\ admits' = IF c \in Counters /\ ~r.raised
                         THEN [admits EXCEPT ![c] = still_recent(Append(@, now), now)]
                         ELSE admits
            /\ UNCHANGED <<extVars, now, cbVars, config, auVars>>

NextRate == Tick \/ CheckRateLimit

SpecRate == InitRate /\ [][NextRate]_vars

\* The rate limiter's state in the current state of the model.
Limiter == RateLimiting(encryption_window, audit_window, failed_auth)

\* Whether a call (operation, identifier) made now on state S is refused.
refused_now(S, rc) == check_rate_limit(S, config, rc[1], rc[2], now).raised

\* The calls that are counted at all.
LimitedCalls == {rc \in RateCalls : rc[1] # "certificate"}

\* C5: for each rate-limited operation with limit L: a call is admitted when
\* fewer than L calls were admitted in the preceding window (the first L calls
\* of a window, and calls after the earlier ones have left it), and it raises
\* RateLimitExceeded when L calls were already admitted inside the window.
C5_RateLimitExact ==
    \A rc \in LimitedCalls :
        LET times == admits[counter_of(rc[1], rc[2])]
            L == limit_of(config, rc[1])
        IN  /\ Len(times) < L => ~refused_now(Limiter, rc)
            /\ inside(times, now) >= L => refused_now(Limiter, rc)

\* C5 on the counters whose limit does not exceed what their container can
\* hold (a list holds anything): there the limit is exact.
RateLimitExactWithinCapacity ==
    \A rc \in LimitedCalls :
        LET times == admits[counter_of(rc[1], rc[2])]
            L == limit_of(config, rc[1])
            fits == \/ rc[1] = "failed_auth"
                    \/ rc[1] = "encryption" /\ L <= EncryptionWindowMaxLen
                    \/ rc[1] = "audit" /\ L <= AuditWindowMaxLen
        IN  fits => /\ Len(times) < L => ~refused_now(Limiter, rc)
                    /\ inside(times, now) >= L => refused_now(Limiter, rc)

\* The state a call rc made now leaves behind.
after_call(rc) == check_rate_limit(Limiter, config, rc[1], rc[2], now).S

\* A call rc made now leaves the counter of another caller as it was: the
\* same window, and the same answer to a call made at this moment.
untouched(rc, other) ==
    /\ window_of(after_call(rc), other[1], other[2])
           = window_of(Limiter, other[1], other[2])
    /\ refused_now(after_call(rc), other) = refused_now(Limiter, other)

Init ==
    /\ now = 0
    /\ cb = CircuitBreaker
    /\ consec = 0
    /\ last = NoCall
    /\ pc = [t \in Threads |-> "idle"]
    /\ trial = [t \in Threads |-> FALSE]
    /\ config = [max_encryptions_per_minute |-> EncryptionWindowMaxLen,
                 max_audit_logs_per_minute |-> AuditWindowMaxLen,
                 max_failed_auth_attempts |-> MaxLimit]
    /\ encryption_window = <<>>
    /\ audit_window = <<>>
    /\ failed_auth = <<>>
    /\ admits = [c \in Counters |-> <<>>]
    /\ user_patterns = dict_set(<<>>, 0, << <<"HEALTH_CHECK", 0>> >>)
    /\ user_creations = <<>>
    /\ out = NoOperation
    /\ ExtIdle

\* History: admits after a call on SecurityManager's counter c at time t.
admitted(c, was_refused, t) ==
    IF was_refused THEN admits
    ELSE [admits EXCEPT ![c] = still_recent(Append(@, t), t)]

\* The outcomes of the INSERTs of one audit call, by nesting depth.
DbOutcomes == [0..RecursionLimit -> BOOLEAN]

\* The rate limiter's state becomes S.
SetLimiter(S) ==
    /\ encryption_window' = S.encryption_window
    /\ audit_window' = S.audit_window
    /\ failed_auth' = S.failed_auth

\* SecurityManager.log_action(user_id, action, details, session_id, ip).
LogAction ==
    \E user_id \in Users, action \in LoggedActions, valid \in BOOLEAN,
       dbok \in DbOutcomes :
        LET r == log_action(Limiter, Audit(cb, user_patterns), config,
                            user_id, action, valid, now, dbok)
        IN  /\ SetLimiter(r.S)
            /\ cb' = r.A.cb
            /\ user_patterns' = r.A.user_patterns
            /\ admits' = admitted(<<"audit", "None">>,
                                  r.raised = "RateLimitExceeded", now)
            /\ out' = Outcome("log_action", r.raised, r.A)
            /\ UNCHANGED <<extVars, now, consec, last, pc, trial, config,
                           user_creations>>

\* SecurityManager.encrypt_data(data).
EncryptData ==
    \E valid \in BOOLEAN :
        LET r == encrypt_data(Limiter, config, valid, now)
        IN  /\ SetLimiter(r.S)
            /\ admits' = admitted(<<"encryption", "None">>,
                                  r.raised = "RateLimitExceeded", now)
            /\ out' = Outcome("encrypt_data", r.raised, Audit(cb, user_patterns))
            /\ UNCHANGED <<extVars, now, cbVars, config, user_patterns,
                           user_creations>>

\* SecurityManager.decrypt_data(encrypted_data).
DecryptData ==
    \E kind \in {"blank", "garbage", "token"} :
        /\ out' = Outcome("decrypt_data", decrypt_data(kind),
                          Audit(cb, user_patterns))
        /\ UNCHANGED <<extVars, now, cbVars, rlVars, user_patterns, user_creations>>

\* UserManager.create_user(username, full_name, role).  valid: username,
\* full_name and role pass validation; conflict: the username is taken, so
\* the INSERT raises IntegrityError (the users table itself is not kept).
\* The audit call is made with the action as a plain string ("USER_CREATED",
\* "USER_CREATE_FAILED") and user id 0 or the new row's id; what it raises
\* leaves create_user, the except clause being for IntegrityError only.
CreateUser ==
    \E valid \in BOOLEAN, conflict \in BOOLEAN, dbok \in DbOutcomes :
        LET q == db_check_rate_limit(user_creations, now)
            a == log_action(Limiter, Audit(cb, user_patterns), config,
                            IF conflict THEN 0 ELSE 1,
                            IF conflict THEN "USER_CREATE_FAILED"
                            ELSE "USER_CREATED",
                            TRUE, now, dbok)
        IN  /\ user_creations' = q.attempts
            /\ IF ~q.raised /\ valid
               THEN /\ SetLimiter(a.S)
                    /\ cb' = a.A.cb
                    /\ user_patterns' = a.A.user_patterns
                    /\ admits' = admitted(<<"audit", "None">>,
                                          a.raised = "RateLimitExceeded", now)
                    /\ out' = Outcome("create_user", a.raised, a.A)
               ELSE /\ UNCHANGED <<encryption_window, audit_window, failed_auth,
                                   cb, user_patterns, admits>>
                    /\ out' = Outcome("create_user",
                                      IF q.raised THEN "RateLimitExceeded"
                                      ELSE "ValidationError",
                                      Audit(cb, user_patterns))
            /\ UNCHANGED <<extVars, now, consec, last, pc, trial, config>>

\* The audit writer alone: log_action calls and the passing of time.
Next == Tick \/ LogAction

Spec == Init /\ [][Next]_vars

\* The other public operations: encrypt_data, decrypt_data, create_user.
NextFacade == Tick \/ EncryptData \/ DecryptData \/ CreateUser

SpecFacade == Init /\ [][NextFacade]_vars

\* C7: for every audit event passed to _log_audit, an entry for that event
\* is appended to the audit file, whatever happens to the backing-store
\* write.  Stated on the last public operation: each event it passed has its
\* line among the lines the operation appended.
C7_EveryEventInAuditFile ==
    \A i \in 1..Len(out.passed) :
        \E j \in 1..Len(out.file) :
            out.file[j] = Entry(out.passed[i].user_id, out.passed[i].action)

\* The events whose action is an ActionType member do get their line, in
\* the order they were passed, whether the write succeeded, raised or was
\* refused by the open breaker.
TypedEventsInAuditFile ==
    LET typed == SelectSeq(out.passed, LAMBDA e : e.action \in ActionType)
        lines == SelectSeq(out.file, LAMBDA l : l # BreakerEntry)
    IN  /\ Len(lines) = Len(typed)
        /\ \A i \in 1..Len(typed) :
               lines[i] = Entry(typed[i].user_id, typed[i].action)

\* C8: audit logging raises AuditError only if the file append has failed
\* too; a failed backing-store write alone, with the line appended to the
\* audit file, does not make log_action raise AuditError.
C8_AuditErrorOnlyIfFileAppendFailed ==
    (out.op = "log_action" /\ out.raised = "AuditError") => out.file = <<>>

\* C9: every public operation emits at least one audit event, failed
\* attempts included: after any operation the audit file or the audit_log
\* table has got a record from it.
C9_EveryOperationAudited ==
    out.op # "none" => (out.file # <<>> \/ out.db # <<>>)

\* C10: the anomaly detector is advisory: _detect_anomalies never raises to
\* its caller, so it never makes the audited operation fail.
C10_DetectorNeverRaises ==
    out.detect # "raised"

\* C11: every action logged through the audit writer is observed by the
\* anomaly detector, and once more than AnomalyThreshold occurrences of the
\* same action by one subject fall inside the anomaly window a
\* SECURITY_VIOLATION event is emitted for that subject.  Stated of a
\* _log_audit call made now that returns normally: the detector has recorded
\* the action, and when the recorded occurrences of the action inside the
\* window, this one included, exceed the threshold, the call has written a
\* SECURITY_VIOLATION line for the subject.
C11_LoggedActionsObserved ==
    \A user_id \in Users, action \in LoggedActions, dbok \in DbOutcomes :
        LET before == patterns_of(user_patterns, user_id)
            r == log_audit(Audit(cb, user_patterns), user_id, action, now, dbok, 0)
            after == patterns_of(r.A.user_patterns, user_id)
            seen == Len(SelectSeq(before,
                        LAMBDA p : p[2] > now - AnomalyWindow /\ p[1] = action)) + 1
        IN  r.raised = "none" =>
                /\ Len(after) = Len(before) + 1 \/ Len(after) = PatternCap
                /\ \E i \in 1..Len(after) : after[i] = <<action, now>>
                /\ seen > AnomalyThreshold =>
                       \E j \in 1..Len(r.A.file) :
                           r.A.file[j] = Entry(user_id, "SECURITY_VIOLATION")

\* ------------------------------------------------------- sessions: SpecSession

\* SecurityManager.create_session(user_id): the next unused token.
CreateSession ==
    \E session_id \in Tokens :
        /\ issued_at[session_id] = None
        /\ \A k \in Tokens : k < session_id => issued_at[k] # None
        /\ active_sessions' = create_session(active_sessions, session_id, now)
        /\ issued_at' = [issued_at EXCEPT ![session_id] = now]
        /\ UNCHANGED <<secVars, notSessions, accepted, validated>>

\* SecurityManager.validate_session(session_id), for any token, issued or not.
ValidateSession ==
    \E session_id \in Tokens :
        LET r == validate_session(active_sessions, session_id, now)
        IN  /\ active_sessions' = r.sessions
            /\ accepted' = IF r.result THEN accepted \cup {session_id}
                           ELSE accepted
            /\ validated' = [session_id |-> session_id, t |-> now,
                             issued |-> issued_at[session_id],
                             result |-> r.result]
            /\ UNCHANGED <<secVars, notSessions, issued_at>>

NextSession == Tick \/ CreateSession \/ ValidateSession

SpecSession == Init /\ [][NextSession]_vars

\* C12: validate_session(token) returns True exactly when create_session
\* issued the token and no more than the session timeout has passed since,
\* however often it was validated before; a token past its timeout gets
\* False and is removed, so every later validation of it returns False.
C12_SessionValidExactlyWithinTimeout ==
    validated.session_id # None =>
        LET k == validated.session_id
            live == /\ validated.issued # None
                    /\ validated.t - validated.issued <= SessionTimeout
        IN  /\ validated.result <=> live
            /\ (validated.issued # None /\ ~validated.result)
                   => k \notin DOMAIN active_sessions
            /\ \A x \in DOMAIN active_sessions :
                   active_sessions[x] = issued_at[x]

\* C12 witness: a token that was validated successfully is, after its
\* timeout, refused and gone from the active sessions.
C12_Witness ==
    /\ validated.session_id \in accepted
    /\ ~validated.result
    /\ validated.issued # None
    /\ validated.t - validated.issued > SessionTimeout
    /\ validated.session_id \notin DOMAIN active_sessions

\* ----------------------------------------------------- atomic store: SpecStore
\* One caller of AtomicFileManager.atomic_json_write on one destination,
\* step by step, with the failures and the crash the steps can meet.

\* atomic_json_write(data, filepath) is called.
WriteBegin ==
    \E data \in Docs, serialisable \in BOOLEAN :
        /\ wr.pc \in {"idle", "done", "crashed"}
        /\ wr' = [pc |-> "tempfile", data |-> data,
                  serialisable |-> serialisable, temp_path |-> FALSE,
                  before |-> dest, temps_before |-> temps,
                  result |-> "none", at |-> "none"]
        /\ UNCHANGED <<secVars, notFiles, rcVars, dest, temps>>

\* filepath.parent.mkdir and tempfile.NamedTemporaryFile(delete=False,
\* dir=filepath.parent, suffix='.tmp'): the temp file exists, or OSError.
WriteTempfile ==
    \E ok \in BOOLEAN :
        /\ wr.pc = "tempfile"
        /\ temps < MaxTemps
        /\ IF ok
           THEN /\ temps' = temps + 1
                /\ wr' = [wr EXCEPT !.pc = "dump"]
           ELSE LET e == write_except(wr, temps)
                IN  wr' = e.w /\ temps' = e.temps
        /\ UNCHANGED <<secVars, notFiles, rcVars, dest>>

\* json.dump(data, f) inside the with block, then temp_path = Path(f.name).
\* json.dump raises TypeError for data it cannot serialise and OSError when
\* the write fails; temp_path is assigned only after it has returned.
WriteDump ==
    \E ok \in BOOLEAN :
        /\ wr.pc = "dump"
        /\ IF ok /\ wr.serialisable
           THEN /\ wr' = [wr EXCEPT !.pc = "move", !.temp_path = TRUE]
                /\ UNCHANGED temps
           ELSE LET e == write_except(wr, temps)
                IN  wr' = e.w /\ temps' = e.temps
        /\ UNCHANGED <<secVars, notFiles, rcVars, dest>>

\* shutil.move(temp_path, filepath): os.rename, which replaces the
\* destination in one step; when os.rename raises OSError (always on
\* Windows when the destination exists) shutil.move copies instead:
\* copy2 opens the destination for writing, which empties it, or fails to.
WriteMove ==
    \E renamed \in BOOLEAN, opened \in BOOLEAN :
        /\ wr.pc = "move"
        /\ IF renamed
           THEN /\ dest' = whole(wr.data)
                /\ temps' = temps - 1
                /\ wr' = write_return(wr)
           ELSE IF opened
           THEN /\ dest' = partial(wr.data)
                /\ wr' = [wr EXCEPT !.pc = "copy"]
                /\ UNCHANGED temps
           ELSE LET e == write_except(wr, temps)
                IN  wr' = e.w /\ temps' = e.temps /\ UNCHANGED dest
        /\ UNCHANGED <<secVars, notFiles, rcVars>>

\* shutil.move, the copy: copy2 writes the rest and os.unlink removes the
\* temp file, or the copy raises part way.
WriteCopy ==
    \E ok \in BOOLEAN :
        /\ wr.pc = "copy"
        /\ IF ok
           THEN /\ dest' = whole(wr.data)
                /\ temps' = temps - 1
                /\ wr' = write_return(wr)
           ELSE LET e == write_except(wr, temps)
                IN  wr' = e.w /\ temps' = e.temps /\ UNCHANGED dest
        /\ UNCHANGED <<secVars, notFiles, rcVars>>

\* The process is killed inside atomic_json_write.
WriteCrash ==
    /\ wr.pc \in {"dump", "move", "copy"}
    /\ wr' = [wr EXCEPT !.pc = "crashed", !.result = "crashed", !.at = wr.pc]
    /\ UNCHANGED <<secVars, notFiles, rcVars, dest, temps>>

\* Leftover .tmp files are removed by hand.
Tidy ==
    /\ wr.pc \in {"idle", "done", "crashed"}
    /\ temps > 0
    /\ temps' = temps - 1
    /\ UNCHANGED <<secVars, notFiles, rcVars, dest, wr>>

NextStore ==
    \/ Tick \/ WriteBegin \/ WriteTempfile \/ WriteDump \/ WriteMove
    \/ WriteCopy \/ WriteCrash \/ Tidy

SpecStore == Init /\ [][NextStore]_vars

\* C13: when atomic_json_write fails at any step (serialising, writing the
\* temp file, the rename) the destination is exactly what it was before the
\* call and no temp file is left behind.
C13_FailedWriteLeavesNothing ==
    (wr.pc = "done" /\ wr.result = "False") =>
        (dest = wr.before /\ temps = wr.temps_before)

\* C14: a reader of the destination path sees the complete previous content
\* (or no file) or the complete new content, never a partial write; and
\* after a crash between the temp-file write and the rename the destination
\* is what it was before the write began.
C14_ReadersNeverSeePartialWrite ==
    /\ dest # NoFile => dest.whole
    /\ wr.pc \notin {"idle"} => (dest = wr.before \/ dest = whole(wr.data))
    /\ (wr.pc = "crashed" /\ wr.at \in {"dump", "move"}) => dest = wr.before

\* ------------------------------------------- backups and recovery: SpecRecovery
\* The progress file is written by save_progress, damaged from outside, and
\* read by atomic_json_read and load_progress.

\* The progress documents saved; which one it is makes no difference to a
\* backup or a recovery.
Progress == {1}

\* ProgressManager.save_progress(progress): one whole atomic_json_write.
SaveProgress ==
    \E data \in Progress, outcome \in WriteOutcomes :
        LET r == atomic_json_write(dest, temps, data, outcome)
        IN  /\ wr.pc \in {"idle", "done", "crashed"}
            /\ r.temps <= MaxTemps
            /\ dest' = r.dest
            /\ temps' = r.temps
            /\ UNCHANGED <<secVars, notFiles, rcVars, wr>>

\* The progress file is damaged (a disk error, an editor, an interrupted
\* copy): it no longer holds a whole document.
Corrupt ==
    /\ dest # NoFile
    /\ dest.whole
    /\ dest' = partial(dest.doc)
    /\ UNCHANGED <<secVars, notFiles, rcVars, temps, wr>>

\* AtomicFileManager.atomic_json_read(progress_file, default).
AtomicJsonRead ==
    \E readable \in BOOLEAN, copied \in BOOLEAN :
        LET r == atomic_json_read(dest, backups, audit_jsonl, now, readable, copied)
        IN  /\ backups' = r.backups
            /\ audit_jsonl' = r.log
            /\ rd' = ReadOutcome("atomic_json_read", dest, now, audit_jsonl, r)
            /\ UNCHANGED <<secVars, notFiles, stVars>>

\* ProgressManager.load_progress().
LoadProgress ==
    \E readable \in BOOLEAN, copied \in [1..2 -> BOOLEAN] :
        LET r == load_progress(dest, backups, audit_jsonl, now, readable, copied)
        IN  /\ backups' = r.backups
            /\ audit_jsonl' = r.log
            /\ rd' = ReadOutcome("load_progress", dest, now, audit_jsonl, r)
            /\ UNCHANGED <<secVars, notFiles, stVars>>

NextRecovery ==
    Tick \/ SaveProgress \/ Corrupt \/ AtomicJsonRead \/ LoadProgress

SpecRecovery == Init /\ [][NextRecovery]_vars

\* C15: a read of a file that cannot be deserialised copies the corrupt file
\* into a timestamped backup and logs a recovery audit event before it
\* returns the default: the default is never returned for a corrupt file
\* without both.
C15_CorruptReadBackedUpAndAudited ==
    (rd.op # "none" /\ rd.saw # NoFile /\ ~rd.saw.whole /\ rd.value = "default")
        => (rd.backed_up /\ rd.audited)

\* C16: after any sequence of loads, saves and recoveries the backup
\* snapshots kept for the progress file are at most max_backup_files (the
\* most recent ones).
C16_BackupsBounded ==
    Cardinality(DOMAIN backups) <= max_backup_files

\* ------------------------------------------------------ audit trails: SpecTrail
\* The three audit trails: the rotating file SecurityManager logs to, the
\* audit_log table with its retention purge, and audit_log.jsonl.

\* self.logger.info(...) of _log_audit reaches the RotatingFileHandler.
LoggerInfo ==
    /\ emitted < MaxRecords
    /\ emitted' = emitted + 1
    /\ log_files' = rotating_emit(log_files, emitted + 1)
    /\ UNCHANGED <<secVars, notTrails, rcVars, audit_log, logged, inserted, purged>>

\* _write_audit_db: a row stamped with the current time.
WriteAuditDb ==
    /\ inserted < MaxRecords
    /\ inserted' = inserted + 1
    /\ audit_log' = Append(audit_log, [id |-> inserted + 1, timestamp |-> now])
    /\ UNCHANGED <<secVars, notTrails, rcVars, log_files, emitted, logged, purged>>

\* DatabaseManager.cleanup_old_audit_logs().
CleanupOldAuditLogs ==
    LET kept == cleanup_old_audit_logs(audit_log, now)
        gone == {audit_log[i] : i \in 1..Len(audit_log)}
                    \ {kept[i] : i \in 1..Len(kept)}
    IN  /\ audit_log' = kept
        /\ purged' = purged \cup {[row |-> r, at |-> now] : r \in gone}
        /\ UNCHANGED <<secVars, notTrails, rcVars, log_files, emitted, logged, inserted>>

\* AuditLogger.log_event(event_type, details).
LogEvent ==
    \E written \in BOOLEAN :
        /\ logged < MaxRecords
        /\ logged' = IF written THEN logged + 1 ELSE logged
        /\ audit_jsonl' = log_event(audit_jsonl, logged + 1, written)
        /\ UNCHANGED <<secVars, notTrails, backups, rd, log_files, audit_log,
                       emitted, inserted, purged>>

NextTrail == Tick \/ LoggerInfo \/ WriteAuditDb \/ CleanupOldAuditLogs \/ LogEvent

SpecTrail == Init /\ [][NextTrail]_vars

\* C17: the audit trail is append-only: every record written earlier is
\* still there, unchanged and in its original order, unless the retention
\* purge removed it when it was older than the retention window.
C17_AuditTrailAppendOnly ==
    /\ lines_of(log_files) = [i \in 1..emitted |-> i]
    /\ audit_jsonl = [i \in 1..logged |-> i]
    /\ LET deleted == {p.row.id : p \in purged}
       IN  /\ \A i \in 1..Len(audit_log) :
                  /\ audit_log[i].id \notin deleted
                  /\ \A j \in 1..Len(audit_log) :
                         i < j => audit_log[i].id < audit_log[j].id
           /\ Len(audit_log) + Cardinality(deleted) = inserted
           /\ \A p \in purged : p.at - p.row.timestamp > AuditRetention

\* ------------------------------------------------- audit checksums: SpecChecksum
\* An audit record is written with its checksum; afterwards one of its
\* fields is changed in the store.

\* _log_audit(user_id, action, details, session_id, ip_address, level,
\* metadata) at the current time; the model follows one record.
LogAudit ==
    \E user_id \in Users, action \in ActionType, details \in Details,
       session_id \in SessionIds, ip_address \in IpAddresses,
       level \in SecurityLevel, metadata \in Metadata :
        /\ changed = "unwritten"
        /\ audit_row' = audit_record(user_id, action, details, session_id,
                                     ip_address, level, metadata, now)
        /\ changed' = "none"
        /\ UNCHANGED <<secVars, notChecksums>>

\* Someone with access to the store gives one field of the record another
\* value; the stored checksum stays.
Tamper ==
    \E f \in Fields :
        \E v \in FieldValues(f) :
            /\ changed = "none"
            /\ v # audit_row[f]
            /\ audit_row' = [audit_row EXCEPT ![f] = v]
            /\ changed' = f
            /\ UNCHANGED <<secVars, notChecksums>>

NextChecksum == Tick \/ LogAudit \/ Tamper

SpecChecksum == Init /\ [][NextChecksum]_vars

\* C18: the checksum recomputed from a written audit record's fields is the
\* stored checksum, and after any single field of the record has been
\* changed the recomputed checksum differs from the stored one.
C18_ChecksumCoversEveryField ==
    /\ changed = "none" => recomputed(audit_row) = audit_row.checksum
    /\ changed \in Fields => recomputed(audit_row) # audit_row.checksum

\* ----------------------------------------------- encryption envelope: SpecCodec
\* A manager seals a plaintext with metadata; a manager, of the same or of
\* another configuration, opens the token.

\* encrypt_data(data, metadata) by a manager configured with cfg; the model
\* follows one call.
EncryptToken ==
    \E cfg \in SecurityConfig, admit \in BOOLEAN, data \in Data,
       metadata \in MetadataMaps :
        /\ ~encrypted.called
        /\ encrypted' = [config |-> cfg, data |-> data, metadata |-> metadata,
                      called |-> TRUE,
                      r |-> encrypt_token(cfg, admit, data, metadata, now)]
        /\ decrypted' = NoOpen
        /\ UNCHANGED <<secVars, notEnvelope>>

\* decrypt_data(encrypted_data) by a manager configured with cfg, on the
\* token just produced or on the empty string.
DecryptToken ==
    \E cfg \in SecurityConfig, blank \in BOOLEAN :
        /\ encrypted.called
        /\ encrypted.r.raised = "none"
        /\ decrypted' = [config |-> cfg, called |-> TRUE,
                      r |-> decrypt_token(cfg,
                                IF blank THEN EmptyString ELSE encrypted.r.token)]
        /\ UNCHANGED <<secVars, notEnvelope, encrypted>>

NextCodec == Tick \/ EncryptToken \/ DecryptToken

SpecCodec == Init /\ [][NextCodec]_vars

\* The token was decrypted by a manager of the configuration that encrypted it.
OpenedUnderSameConfiguration ==
    /\ decrypted.called
    /\ decrypted.r.raised # "ValidationError"
    /\ decrypted.config = encrypted.config

JsonFaithful(metadata) ==
    \A item \in metadata :
        item[1][1] = "str" /\ item[2][1] \in {"str", "int", "list"}

C20_VersionMismatchRefused ==
    (/\ decrypted.called
     /\ decrypted.r.raised # "ValidationError"
     /\ decrypted.config.encryption_version # encrypted.config.encryption_version)
        => /\ decrypted.r.raised = "EncryptionError"
           /\ decrypted.r.payload = NoPayload

\* A token of version v1 was refused by a manager of version v2 that holds
\* the same key.
C20_Witness ==
    /\ decrypted.called
    /\ encrypted.config = [encryption_version |-> "v1", cipher |-> "k1"]
    /\ decrypted.config = [encryption_version |-> "v2", cipher |-> "k1"]
    /\ decrypted.r.raised = "EncryptionError"

\* ------------------------------------------------- configuration: SpecConfig
\* The settings are changed and a SecurityManager is constructed from them.

\* The environment, or the caller's SecurityConfig, is set.
SetEnviron ==
    \E e \in Settings :
        /\ environ' = e
        /\ manager' = NoManager
        /\ UNCHANGED <<secVars, notConfig>>

\* SecurityManager() or SecurityManager(config).
Construct ==
    \E explicit \in BOOLEAN, started \in BOOLEAN :
        /\ manager' = SecurityManager(environ, explicit, started)
        /\ UNCHANGED <<secVars, notConfig, environ>>

NextConfig == SetEnviron \/ Construct

SpecConfig == Init /\ [][NextConfig]_vars

\* The configuration the claim calls valid.
ValidConfiguration(c) ==
    /\ c.encryption_key = "ok"
    /\ c.salt = "ok"
    /\ c.pbkdf2_iterations >= MinIterations
    /\ c.max_encryptions_per_minute >= 1
    /\ c.session_timeout_minutes >= 1
    /\ c.max_data_size >= 1

\* C21: invalid configuration is fatal: a SecurityManager that came out of
\* its constructor holds a valid configuration (secret, salt, iteration
\* count, rate limit, session timeout and payload size).
C21_NoManagerOnInvalidConfiguration ==
    manager.running => ValidConfiguration(manager.config)

\* ---------------------------------------------- progress table: SpecProgressDb
\* DatabaseManager.save_progress on the SecurityManager of the facade.

\* The audit_log INSERT, which the audit calls of save_progress never
\* reach, their action being a plain string: taken to succeed.
SaveDbOutcomes == {[d \in 0..RecursionLimit |-> TRUE]}

\* DatabaseManager.save_progress(user_id, lesson_title, score, checklist_data).
\* The history of admissions (admits) is not followed here.
SaveProgressDb ==
    \E user_id \in Users, valid \in BOOLEAN, checklist \in Checklists,
       committed \in BOOLEAN, audit_valid \in BOOLEAN, dbok \in SaveDbOutcomes :
        LET r == save_progress(training_progress, Limiter,
                               Audit(cb, user_patterns), config, user_id, valid,
                               checklist, committed, audit_valid, now, dbok)
        IN  /\ Len(training_progress) < MaxRows
            /\ training_progress' = r.T
            /\ SetLimiter(r.S)
            /\ cb' = r.A.cb
            /\ user_patterns' = r.A.user_patterns
            /\ saved' = [called |-> TRUE, before |-> training_progress,
                         raised |-> r.raised]
            /\ UNCHANGED <<notProgress, now, consec, last, pc, trial, config,
                           admits, user_creations, out>>

NextProgressDb == Tick \/ SaveProgressDb

SpecProgressDb == Init /\ [][NextProgressDb]_vars

\* C22: save_progress is all-or-nothing: when the call ended by raising an
\* error, the training_progress table holds no row added by that call.
C22_SaveProgressAllOrNothing ==
    (saved.called /\ saved.raised # "none") => training_progress = saved.before

\* ------------------------------------- rate limiter under threads: SpecRateThreads
\* Several threads inside _check_rate_limit("encryption") on one
\* SecurityManager, whose limit does not exceed the deque's capacity.  The
\* method takes no lock, so the threads interleave between its statements.

\* current_time = time.time(); window_start = current_time - 60.0
RlStart(t) ==
    /\ rl_pc[t] = "idle"
    /\ Len(thread_admits) < MaxAdmits
    /\ rl_time' = [rl_time EXCEPT ![t] = now]
    /\ rl_pc' = [rl_pc EXCEPT ![t] = "clean"]
    /\ UNCHANGED <<secVars, notRateThreads, thread_admits>>

\* while window and window[0] < window_start: window.popleft()
RlClean(t) ==
    /\ rl_pc[t] = "clean"
    /\ encryption_window' = clean_old(encryption_window, rl_time[t] - RateWindow)
    /\ rl_pc' = [rl_pc EXCEPT ![t] = "check"]
    /\ UNCHANGED <<notRateThreads, now, cbVars, auVars, config, audit_window,
                   failed_auth, admits, rl_time, thread_admits>>

\* if len(window) >= limit: raise RateLimitExceeded
RlCheck(t) ==
    /\ rl_pc[t] = "check"
    /\ rl_pc' = [rl_pc EXCEPT ![t] =
                    IF Len(encryption_window) >= config.max_encryptions_per_minute
                    THEN "idle" ELSE "append"]
    /\ UNCHANGED <<secVars, notRateThreads, rl_time, thread_admits>>

\* window.append(current_time): the call is admitted.
RlAppend(t) ==
    /\ rl_pc[t] = "append"
    /\ encryption_window' = deque_append(encryption_window, rl_time[t],
                                         EncryptionWindowMaxLen)
    /\ thread_admits' = Append(thread_admits, rl_time[t])
    /\ rl_pc' = [rl_pc EXCEPT ![t] = "idle"]
    /\ UNCHANGED <<notRateThreads, now, cbVars, auVars, config, audit_window,
                   failed_auth, admits, rl_time>>

NextRateThreads ==
    \/ Tick
    \/ \E t \in Threads : RlStart(t)
    \/ \E t \in Threads : RlClean(t)
    \/ \E t \in Threads : RlCheck(t)
    \/ \E t \in Threads : RlAppend(t)

SpecRateThreads == Init /\ [][NextRateThreads]_vars

\* C23: with several threads in the rate limiter for one operation, no
\* interleaving admits more than limit calls inside one window: of the
\* admitted calls, at most limit have their time within any one window's
\* length.
C23_NoInterleavingAdmitsMoreThanLimit ==
    \A end \in 0..MaxTime :
        Cardinality({i \in 1..Len(thread_admits) :
                        /\ thread_admits[i] > end - RateWindow
                        /\ thread_admits[i] <= end})
            <= config.max_encryptions_per_minute

\* ------------------------------------------ concurrent file writers: SpecWriters
\* Several threads in ProgressManager.save_progress, hence in
\* AtomicFileManager.atomic_json_write, which takes no lock.

\* atomic_json_write(data, filepath) is called: the directory is made and
\* the temp file, of a name of its own, is created.
SaveBegin(t) ==
    \E file \in LogicalFiles, data \in Docs :
        /\ sv[t].pc = "idle"
        /\ sv' = [sv EXCEPT ![t] = [pc |-> "dump", file |-> file, data |-> data]]
        /\ UNCHANGED <<secVars, notWriters, disk>>

\* json.dump(data, f): the temp file is written; when it fails the call
\* ends.
SaveDump(t) ==
    \E dumped \in BOOLEAN :
        /\ sv[t].pc = "dump"
        /\ sv' = [sv EXCEPT ![t].pc = IF dumped THEN "move" ELSE "idle"]
        /\ UNCHANGED <<secVars, notWriters, disk>>

\* shutil.move(temp_path, filepath): the temp file takes the destination's
\* place.
SaveMove(t) ==
    /\ sv[t].pc = "move"
    /\ disk' = [disk EXCEPT ![sv[t].file] = sv[t].data]
    /\ sv' = [sv EXCEPT ![t].pc = "idle"]
    /\ UNCHANGED <<secVars, notWriters>>

NextWriters ==
    \/ \E t \in Threads : SaveBegin(t)
    \/ \E t \in Threads : SaveDump(t)
    \/ \E t \in Threads : SaveMove(t)

SpecWriters == Init /\ [][NextWriters]_vars

\* C24: writes to the same logical file are mutually exclusive: no two
\* save operations are between the start of their temp-write and the end of
\* their rename on one file at the same time.
C24_SameFileWritesExclusive ==
    \A t1 \in Threads, t2 \in Threads :
        (t1 # t2 /\ sv[t1].pc # "idle" /\ sv[t2].pc # "idle")
            => sv[t1].file # sv[t2].file

\* ------------------------------------------- validation and admission (SpecFacade)

\* C25: in encrypt_data and log_action validation comes before the
\* rate-limit check: a call made now that is rejected with ValidationError
\* uses up no quota, the operation's window after it being the window
\* before it (less the timestamps that have expired).
C25_ValidationErrorUsesNoQuota ==
    /\ LET r == encrypt_data(Limiter, config, FALSE, now)
       IN  r.raised = "ValidationError" =>
               r.S.encryption_window
                   = clean_old(encryption_window, now - RateWindow)
    /\ \A user_id \in Users, action \in LoggedActions, dbok \in DbOutcomes :
           LET r == log_action(Limiter, Audit(cb, user_patterns), config,
                               user_id, action, FALSE, now, dbok)
           IN  r.raised = "ValidationError" =>
                   r.S.audit_window = clean_old(audit_window, now - RateWindow)

\* ---------------------------------------------- rate limiter calls: SpecRateCalls
\* Sequential _check_rate_limit calls on a manager whose limits are within
\* the capacity of its windows, each call remembered with what it found and
\* what it left.  A behaviour follows the calls on one counter.

RateCall ==
    \E rc \in LimitedCalls :
        LET r == check_rate_limit(Limiter, config, rc[1], rc[2], now)
            c == counter_of(rc[1], rc[2])
        IN  /\ rate_call.called =>
                   c = counter_of(rate_call.operation, rate_call.identifier)
            /\ SetLimiter(r.S)
            /\ admits' = admitted(c, r.raised, now)
            /\ rate_call' = [called |-> TRUE, operation |-> rc[1],
                             identifier |-> rc[2], t |-> now,
                             before |-> Limiter, after |-> r.S,
                             admitted |-> admits[c], raised |-> r.raised]
            /\ UNCHANGED <<notRateCalls, now, cbVars, auVars, config>>

NextRateCalls == Tick \/ RateCall

SpecRateCalls == Init /\ [][NextRateCalls]_vars

\* The timestamps the limiter still counts at time t: those it does not
\* prune (a deque keeps what is not older than the window, a failed_auth
\* list what is newer than the window's start).
unexpired(times, operation, t) ==
    IF operation = "failed_auth"
    THEN SelectSeq(times, LAMBDA x : x > t - RateWindow)
    ELSE SelectSeq(times, LAMBDA x : ~(x < t - RateWindow))

\* C26: a call refused with RateLimitExceeded records no timestamp: the
\* window it leaves holds exactly the unexpired timestamps of the calls
\* admitted before it, and at no later time is a call refused after it that
\* would have been admitted without it.
C26_RefusedCallRecordsNothing ==
    (rate_call.called /\ rate_call.raised) =>
        /\ window_of(rate_call.after, rate_call.operation, rate_call.identifier)
               = unexpired(rate_call.admitted, rate_call.operation, rate_call.t)
        /\ \A later \in rate_call.t..MaxTime :
               check_rate_limit(rate_call.after, config, rate_call.operation,
                                rate_call.identifier, later).raised
                   = check_rate_limit(rate_call.before, config,
                                      rate_call.operation,
                                      rate_call.identifier, later).raised

\* C26 witness: a call was refused some time after the first of the calls
\* still counted in its window had been admitted.
C26_Witness ==
    /\ rate_call.called
    /\ rate_call.raised
    /\ rate_call.admitted # <<>>
    /\ rate_call.t > rate_call.admitted[1]
    /\ window_of(rate_call.after, rate_call.operation, rate_call.identifier)
           = rate_call.admitted

\* ------------------------------------------------------ CLI progress: SpecCli
\* The user reads lessons and toggles checklist items.

\* The result of a CLI operation becomes the state.
SetCli(r) ==
    /\ progress' = r.progress
    /\ progress_json' = r.file
    /\ cli_audit' = r.audit
    /\ cli_changes' = r.changes

DisplayLesson ==
    \E title \in Lessons, persisted \in BOOLEAN, appended \in BOOLEAN :
        /\ progress.xp + xp_per_lesson <= MaxXp
        /\ SetCli(display_lesson(progress, progress_json, cli_audit,
                                 cli_changes, title, persisted, appended))
        /\ UNCHANGED <<secVars, notCli>>

ShowChecklist ==
    \E item \in ChecklistItems, persisted \in BOOLEAN, appended \in BOOLEAN :
        /\ progress.xp + xp_per_checklist_item <= MaxXp
        /\ SetCli(show_checklist(progress, progress_json, cli_audit,
                                 cli_changes, item, persisted, appended))
        /\ UNCHANGED <<secVars, notCli>>

NextCli == DisplayLesson \/ ShowChecklist

SpecCli == Init /\ [][NextCli]_vars

\* C27: every change the CLI makes to the progress is accompanied by an
\* audit event, also when saving fails: the audit file holds, in order, one
\* matching event for each change made to the progress in memory.
C27_EveryProgressChangeAudited == cli_audit = cli_changes


\* ------------------------------------------- anomaly events: Spec again

\* C28: emitting an anomaly event always terminates: the mutual recursion of
\* _log_audit and _detect_anomalies stops after a bounded number of nested
\* calls, so an audit call whose writes all returned never ends in the
\* interpreter's RecursionError (which _log_audit re-raises as AuditError).
C28_AnomalyRecursionStops ==
    (out.op = "log_action" /\ out.raised = "AuditError")
        => \E i \in 1..Len(out.passed) : out.passed[i].write # "returned"


\* ------------------------------------------ window capacity: SpecRate again

\* C29: for every configured encryption and audit limit, the fixed-capacity
\* deques never drop a timestamp that is still inside the window: the
\* unexpired entries of each window are exactly the calls admitted in the
\* window, so the count compared with the limit is their number.
C29_WindowHoldsEveryAdmittedCall ==
    \A operation \in {"encryption", "audit"} :
        unexpired(window_of(Limiter, operation, "None"), operation, now)
            = unexpired(admits[counter_of(operation, "None")], operation, now)


\* ------------------------------------- breaker invariant: SpecBreaker again

\* C30: in every state reachable by sequential calls, between calls and
\* while a protected function runs: CLOSED implies failures is below
\* failure_threshold; OPEN or HALF_OPEN implies failures is at least
\* failure_threshold and last_failure_time is recorded.
C30_BreakerInvariant ==
    \A b \in {cb, call_enter(cb, now)} :
        /\ b.state = "CLOSED" => b.failures < failure_threshold
        /\ b.state \in {"OPEN", "HALF_OPEN"}
              => (b.failures >= failure_threshold /\ b.last_failure_time # None)

\* C30 witness: a call found the breaker OPEN, ran its function in
\* HALF_OPEN and failed, which has left the breaker OPEN with failures above
\* the threshold.
C30_Witness ==
    /\ last.op = "call"
    /\ last.pre.state = "OPEN"
    /\ last.half_open
    /\ call_enter(last.pre, last.t0).failures >= failure_threshold
    /\ cb.state = "OPEN"
    /\ cb.failures > failure_threshold

====
